---- MODULE Spec2Model ----
(***************************************************************************)
(* A model of ImageProcessor (src/image_processing.py): the convolution    *)
(* engine, the directional edge operators, the Canny stages                *)
(* (compute_gradient, non_maximum_suppression, double_thresholding,        *)
(* edge_tracking) and get_cdf.                                             *)
(*                                                                         *)
(* A 2D numpy array is a record [shape |-> <<rows, cols>>, px |-> f] with  *)
(* f a function on Pos(shape), positions being 0-based <<i, j>> pairs as   *)
(* in the source.  A call that raises results in the record ValueError.    *)
(***************************************************************************)
EXTENDS Integers, Sequences, FiniteSets, TLC

VARIABLES
    pc,                \* position of the modelled call: "call", "scan", "done"
    args,              \* the arguments of the call (a record)
    result,            \* what the call returned or raised; None before it returns
    thresholded_image, \* edge_tracking: the array it mutates in place
    strong_edges,      \* edge_tracking: mask computed on entry (line 338)
    weak_edges,        \* edge_tracking: mask computed on entry (line 339)
    visited            \* edge_tracking: seeds the scan loop has already passed

vars == <<pc, args, result, thresholded_image, strong_edges, weak_edges, visited>>

\* Records, so that they compare with arrays.
None == [none |-> TRUE]
ValueError == [raises |-> "ValueError"]

----------------------------------------------------------------------------
(* Arrays *)

Pos(shape) == (0 .. shape[1] - 1) \X (0 .. shape[2] - 1)

Array(shape, f) == [shape |-> shape, px |-> f]

InBounds(img, i, j) ==
    /\ 0 <= i /\ i < img.shape[1]
    /\ 0 <= j /\ j < img.shape[2]

Arrays(shape, values) == { Array(shape, f) : f \in [Pos(shape) -> values] }

Min(a, b) == IF a <= b THEN a ELSE b
Abs(a) == IF a < 0 THEN -a ELSE a

----------------------------------------------------------------------------
(* Hysteresis: edge_tracking *)

NOT_EDGE == 0
WEAK == 50
STRONG == 255

\* Largest number of pixels of a classification grid given to edge_tracking.
MaxTrackCells == 6

TrackShapes ==
    { s \in (1 .. MaxTrackCells) \X (1 .. MaxTrackCells) : s[1] * s[2] <= MaxTrackCells }

\* for di in range(-1, 2): for dj in range(-1, 2): if (di != 0 or dj != 0)
CodeOrder ==
    << <<-1, -1>>, <<-1, 0>>, <<-1, 1>>, <<0, -1>>,
       <<0, 1>>, <<1, -1>>, <<1, 0>>, <<1, 1>> >>

Reverse(s) == [n \in 1 .. Len(s) |-> s[Len(s) + 1 - n]]

\* Neighbour visiting orders tried: the source's, its reverse, and the
\* source's with the two loops exchanged (dj outermost).
NeighbourOrders ==
    { CodeOrder,
      Reverse(CodeOrder),
      [n \in 1 .. 8 |-> <<CodeOrder[n][2], CodeOrder[n][1]>>] }

RECURSIVE dfs(_, _, _, _)
RECURSIVE dfsNeighbours(_, _, _, _, _)

\* A dfs that confuses the two markers: it tests for 255 and writes 50.
dfs_markers_swapped(img, i, j, order) ==
    IF InBounds(img, i, j) /\ img.px[<<i, j>>] = STRONG
    THEN dfsNeighbours([img EXCEPT !.px[<<i, j>>] = WEAK], i, j, order, 1)
    ELSE img

\* dfs(i, j) of edge_tracking, on the array it closes over; returns the array
\* as the call leaves it.
dfs(img, i, j, order) ==
    IF InBounds(img, i, j) /\ img.px[<<i, j>>] = WEAK
    THEN dfsNeighbours([img EXCEPT !.px[<<i, j>>] = STRONG], i, j, order, 1)
    ELSE img

\* The two nested loops of dfs, from the n-th neighbour on.
dfsNeighbours(img, i, j, order, n) ==
    IF n > Len(order) THEN img
    ELSE dfsNeighbours(dfs(img, i + order[n][1], j + order[n][2], order),
                       i, j, order, n + 1)

\* strong_edges = (thresholded_image == 255); likewise weak_edges with 50.
Mask(img, v) == { p \in Pos(img.shape) : img.px[p] = v }

\* thresholded_image[weak_edges] = 0
DemoteWeak(img, mask) ==
    [img EXCEPT !.px = [p \in Pos(img.shape) |-> IF p \in mask THEN NOT_EDGE ELSE img.px[p]]]

\* Positions in the row-major order of the scan loop.
RowMajor(shape) ==
    [n \in 1 .. shape[1] * shape[2] |-> <<(n - 1) \div shape[2], (n - 1) % shape[2]>>]

RECURSIVE ScanFrom(_, _, _, _)
ScanFrom(img, strong, cells, n) ==
    IF n > Len(cells) THEN img
    ELSE ScanFrom(IF cells[n] \in strong
                  THEN dfs(img, cells[n][1], cells[n][2], CodeOrder)
                  ELSE img,
                  strong, cells, n + 1)

\* edge_tracking as the source runs it: row-major scan, source neighbour order.
edge_tracking(img) ==
    DemoteWeak(ScanFrom(img, Mask(img, STRONG), RowMajor(img.shape), 1), Mask(img, WEAK))

InitTrack ==
    /\ pc = "call"
    /\ \E s \in TrackShapes :
          \E img \in Arrays(s, {NOT_EDGE, WEAK, STRONG}) :
             args = [thresholded_image |-> img]
    /\ result = None
    /\ thresholded_image = None
    /\ strong_edges = {}
    /\ weak_edges = {}
    /\ visited = {}

\* Lines 338-339: the two masks are taken from the array as passed.
TrackEnter ==
    /\ pc = "call"
    /\ pc' = "scan"
    /\ thresholded_image' = args.thresholded_image
    /\ strong_edges' = Mask(args.thresholded_image, STRONG)
    /\ weak_edges' = Mask(args.thresholded_image, WEAK)
    /\ UNCHANGED <<args, result, visited>>

\* Lines 351-354: one iteration of the scan that finds a seed and calls dfs.
\* The seed and the neighbour order are picked freely; the source's scan is
\* the run that always picks the row-major least seed and CodeOrder.
TrackSeed ==
    /\ pc = "scan"
    /\ \E p \in strong_edges \ visited :
          \E order \in NeighbourOrders :
             /\ thresholded_image' = dfs(thresholded_image, p[1], p[2], order)
             /\ visited' = visited \cup {p}
    /\ UNCHANGED <<pc, args, result, strong_edges, weak_edges>>

\* Lines 356-359: the scan is over; the weak mask is zeroed and the array returned.
TrackReturn ==
    /\ pc = "scan"
    /\ visited = strong_edges
    /\ pc' = "done"
    /\ thresholded_image' = DemoteWeak(thresholded_image, weak_edges)
    /\ result' = DemoteWeak(thresholded_image, weak_edges)
    /\ UNCHANGED <<args, strong_edges, weak_edges, visited>>

NextTrack == TrackEnter \/ TrackSeed \/ TrackReturn

SpecTrack == InitTrack /\ [][NextTrack]_vars

----------------------------------------------------------------------------
(* Claims on edge_tracking *)

Neighbours8(p) ==
    { q \in ((p[1] - 1) .. (p[1] + 1)) \X ((p[2] - 1) .. (p[2] + 1)) : q # p }

\* Pixels of img reachable from S through 8-connected WEAK pixels.
RECURSIVE Linked(_, _)
Linked(img, S) ==
    LET more == { q \in Pos(img.shape) \ S :
                    img.px[q] = WEAK /\ \E p \in S : q \in Neighbours8(p) }
    IN  IF more = {} THEN S ELSE Linked(img, S \cup more)

\* C1: the returned map is EDGE (255) exactly on the STRONG pixels and on the
\* WEAK pixels joined to a STRONG pixel by a path of 8-connected WEAK pixels,
\* and NOT_EDGE (0) everywhere else.
C1_HysteresisLinks ==
    pc = "done" =>
        LET in == args.thresholded_image
        IN  \A p \in Pos(in.shape) :
               result.px[p] =
                  IF p \in Linked(in, Mask(in, STRONG)) THEN STRONG ELSE NOT_EDGE

\* C2: whatever order the seeds and the neighbours are visited in, the call
\* ends in the map the source's own order gives, and while the traversal runs
\* no pixel that is EDGE becomes WEAK.
C2_OrderIndependent ==
    /\ [](pc = "done" => result = edge_tracking(args.thresholded_image))
    /\ [][pc = "scan" /\ pc' = "scan" =>
            \A p \in Pos(thresholded_image.shape) :
               thresholded_image.px[p] = STRONG => thresholded_image'.px[p] # WEAK]_vars

\* A finished run over two seeds with a weak pixel next to one of them.
C2_Witness ==
    /\ pc = "done"
    /\ Cardinality(strong_edges) >= 2
    /\ \E p \in strong_edges : \E q \in weak_edges : q \in Neighbours8(p)

----------------------------------------------------------------------------
(* Convolution engine: convolve *)

\* Largest side of an image given to convolve and to apply_edge.
MaxSide == 8

\* Element of a row-major enumeration: the n-th cell (1-based) of a k-by-k window.
Cell(k, n) == <<(n - 1) \div k, (n - 1) % k>>

\* np.sum(np.multiply(mat, kernel)) with mat = image[i:i+k, j:j+k],
\* summed from the n-th cell of the window on.
RECURSIVE WindowSum(_, _, _, _, _)
WindowSum(image, kernel, i, j, n) ==
    LET k == kernel.shape[1]
        d == Cell(k, n)
    IN  IF n > k * k THEN 0
        ELSE image.px[<<i + d[1], j + d[2]>>] * kernel.px[d]
             + WindowSum(image, kernel, i, j, n + 1)

\* convolve with the window one cell off: mat = image[i+1:i+1+k, j:j+k].
convolve_window_shifted(image, kernel) ==
    LET x == image.shape[1]
        y == image.shape[2]
        k == kernel.shape[1]
    IN  IF x - 2 * k < 0 \/ y - 2 * k < 0 THEN ValueError
        ELSE Array(<<x - 2 * k, y - 2 * k>>,
                   [p \in Pos(<<x - 2 * k, y - 2 * k>>) |->
                       WindowSum(image, kernel, p[1] + 1, p[2], 1)])

\* convolve(image, kernel).  np.zeros(shape=(x-2*k, y-2*k)) raises ValueError
\* when a dimension is negative and returns an empty array when one is zero.
convolve(image, kernel) ==
    LET x == image.shape[1]
        y == image.shape[2]
        k == kernel.shape[1]
    IN  IF x - 2 * k < 0 \/ y - 2 * k < 0 THEN ValueError
        ELSE Array(<<x - 2 * k, y - 2 * k>>,
                   [p \in Pos(<<x - 2 * k, y - 2 * k>>) |->
                       WindowSum(image, kernel, p[1], p[2], 1)])

\* A square kernel from its rows.
Kernel(rows) ==
    Array(<<Len(rows), Len(rows)>>,
          [p \in Pos(<<Len(rows), Len(rows)>>) |-> rows[p[1] + 1][p[2] + 1]])

\* array.T
Transpose(a) ==
    Array(<<a.shape[2], a.shape[1]>>,
          [p \in Pos(<<a.shape[2], a.shape[1]>>) |-> a.px[<<p[2], p[1]>>]])

laplacian_kernel == Kernel(<< <<0, 1, 0>>, <<1, -4, 1>>, <<0, 1, 0>> >>)
prewitt_kernel == Kernel(<< <<-1, 0, 1>>, <<-1, 0, 1>>, <<-1, 0, 1>> >>)
sobel_kernel == Kernel(<< <<-1, 0, 1>>, <<-2, 0, 2>>, <<-1, 0, 1>> >>)
roberts_kernel == Kernel(<< <<1, 0>>, <<0, -1>> >>)

\* The k-sided kernel whose only nonzero weight is a 1 at the centre (k odd).
CenterOne(k) ==
    Array(<<k, k>>,
          [p \in Pos(<<k, k>>) |->
              IF p = <<(k - 1) \div 2, (k - 1) \div 2>> THEN 1 ELSE 0])

EdgeKernels == {laplacian_kernel, prewitt_kernel, sobel_kernel, roberts_kernel}

TestKernels == EdgeKernels \cup {Transpose(sobel_kernel), CenterOne(1), CenterOne(3)}

\* 8-bit test images of a shape: one whose sample encodes its position
\* (16*i + j, all distinct while j < 16), flat ones, and 0/255 steps along a
\* column or a row.
CodedImage(shape, c) == Array(shape, [p \in Pos(shape) |-> (16 * p[1] + p[2] + c) % 256])
FlatImage(shape, v) == Array(shape, [p \in Pos(shape) |-> v])
StepCols(shape, c) == Array(shape, [p \in Pos(shape) |-> IF p[2] < c THEN 0 ELSE 255])
StepRows(shape, c) == Array(shape, [p \in Pos(shape) |-> IF p[1] < c THEN 0 ELSE 255])

TestImages(shape) ==
    { CodedImage(shape, c) : c \in {0, 100} }
    \cup { FlatImage(shape, v) : v \in {0, 128, 255} }
    \cup { StepCols(shape, c) : c \in {1, 2, shape[2] \div 2} }
    \cup { StepRows(shape, c) : c \in {1, shape[1] \div 2} }

ImageShapes == (1 .. MaxSide) \X (1 .. MaxSide)

TrackIdle ==
    /\ thresholded_image = None
    /\ strong_edges = {}
    /\ weak_edges = {}
    /\ visited = {}

TrackVars == <<thresholded_image, strong_edges, weak_edges, visited>>

InitConvolve ==
    /\ pc = "call"
    /\ \E s \in ImageShapes :
          \E image \in TestImages(s) :
             \E kernel \in TestKernels :
                args = [image |-> image, kernel |-> kernel]
    /\ result = None
    /\ TrackIdle

Convolve ==
    /\ pc = "call"
    /\ pc' = "done"
    /\ result' = convolve(args.image, args.kernel)
    /\ UNCHANGED <<args, TrackVars>>

NextConvolve == Convolve

SpecConvolve == InitConvolve /\ [][NextConvolve]_vars

\* C5: whenever an image dimension is <= 2k the call fails (raises) and
\* returns no array, empty or otherwise.
C5_SmallImageFails ==
    pc = "done" =>
        LET k == args.kernel.shape[1]
        IN  (args.image.shape[1] <= 2 * k \/ args.image.shape[2] <= 2 * k)
               => result = ValueError

\* C9: with an odd k-sided centre-one kernel and both dimensions above 2k the
\* output has shape (x-2k) by (y-2k) and output[i,j] = image[i+(k-1)/2, j+(k-1)/2].
C9_IdentityCrop ==
    pc = "done" =>
        \A k \in {1, 3} :
            LET x == args.image.shape[1]
                y == args.image.shape[2]
                c == (k - 1) \div 2
            IN  (args.kernel = CenterOne(k) /\ x > 2 * k /\ y > 2 * k) =>
                   /\ result # ValueError
                   /\ result.shape = <<x - 2 * k, y - 2 * k>>
                   /\ \A p \in Pos(result.shape) :
                         result.px[p] = args.image.px[<<p[1] + c, p[2] + c>>]

\* The 3-sided centre-one kernel applied to a position-coded image with a
\* 2-by-2 output.
C9_Witness ==
    /\ pc = "done"
    /\ args.kernel = CenterOne(3)
    /\ args.image = CodedImage(<<8, 8>>, 0)
    /\ result # ValueError
    /\ result.shape = <<2, 2>>

----------------------------------------------------------------------------
(* Directional edge operators: apply_edge *)

\* floor(sqrt(n)) for n >= 0, searched between lo and hi (lo*lo <= n < hi*hi).
RECURSIVE SqrtBetween(_, _, _)
SqrtBetween(n, lo, hi) ==
    IF hi - lo <= 1 THEN lo
    ELSE LET mid == (lo + hi) \div 2
         IN  IF mid * mid <= n THEN SqrtBetween(n, mid, hi) ELSE SqrtBetween(n, lo, mid)

\* A power of two whose square exceeds n, from h up.
RECURSIVE RootAbove(_, _)
RootAbove(n, h) == IF h * h > n THEN h ELSE RootAbove(n, 2 * h)

\* np.sqrt followed by a truncating use: the integer part of the root.
ISqrt(n) == SqrtBetween(n, 0, RootAbove(n, 1))

\* What astype(np.uint8) makes of a non-negative float v with integer part v.
\* In range the value is kept.  Out of range the C conversion is undefined:
\* builds that convert through a wider integer register keep the low 8 bits
\* ("wrap"), builds with a saturating conversion give 255 ("saturate").
NarrowModes == {"wrap", "saturate"}

astype_uint8(v, mode) ==
    IF v <= 255 THEN v
    ELSE IF mode = "wrap" THEN v % 256 ELSE 255

\* abs(a), elementwise
AbsArray(a) == Array(a.shape, [p \in Pos(a.shape) |-> Abs(a.px[p])])

\* The float array `edge` of apply_edge before the cast, as integer parts
\* (lines 364-371); ValueError when convolve raises.
EdgeResponse(image, array, direction) ==
    IF convolve(image, array) = ValueError THEN ValueError
    ELSE IF direction = "Horizontal" THEN AbsArray(convolve(image, array))
    ELSE IF direction = "Vertical" THEN AbsArray(convolve(image, Transpose(array)))
    ELSE LET edge_x == AbsArray(convolve(image, array))
             edge_y == AbsArray(convolve(image, Transpose(array)))
         IN  Array(edge_x.shape,
                   [p \in Pos(edge_x.shape) |->
                       ISqrt(edge_x.px[p] * edge_x.px[p] + edge_y.px[p] * edge_y.px[p])])

\* apply_edge(image, array, direction), with the build's narrowing `mode`.
apply_edge(image, array, direction, mode) ==
    LET edge == EdgeResponse(image, array, direction)
    IN  IF edge = ValueError THEN ValueError
        ELSE Array(edge.shape, [p \in Pos(edge.shape) |-> astype_uint8(edge.px[p], mode)])

Directions == {"Horizontal", "Vertical", "both"}

InitEdge ==
    /\ pc = "call"
    /\ \E s \in ImageShapes :
          \E image \in TestImages(s) :
             \E array \in EdgeKernels :
                \E direction \in Directions :
                   args = [image |-> image, array |-> array, direction |-> direction]
    /\ result = None
    /\ TrackIdle

ApplyEdge ==
    /\ pc = "call"
    /\ pc' = "done"
    /\ \E mode \in NarrowModes :
          result' = apply_edge(args.image, args.array, args.direction, mode)
    /\ UNCHANGED <<args, TrackVars>>

NextEdge == ApplyEdge

SpecEdge == InitEdge /\ [][NextEdge]_vars

\* C7: every output sample of apply_edge is min(255, response), the response
\* being the absolute directional response or the Euclidean norm of both; a
\* response above 255 gives 255 and never a value wrapped modulo 256.
C7_ClampedBeforeNarrowing ==
    (pc = "done" /\ result # ValueError) =>
        LET edge == EdgeResponse(args.image, args.array, args.direction)
        IN  \A p \in Pos(result.shape) : result.px[p] = Min(255, edge.px[p])

----------------------------------------------------------------------------
(* Non-maximum suppression *)

(* An orientation is an integer a standing for the angle a*pi/16, with       *)
(* -15 <= a <= 16 covering (-pi, pi].  Every bound the source compares an    *)
(* angle with is a multiple of pi/8, an even a, so an odd a stands for all   *)
(* the angles strictly between its two even neighbours.                      *)

\* The branch of lines 312-320 an angle takes: 0, 1 or 2, or 3 when none does.
Bin(angle) ==
    IF (0 <= angle /\ angle < 2) \/ (14 <= angle /\ angle <= 16) THEN 0
    ELSE IF (2 <= angle /\ angle < 6) \/ (10 <= angle /\ angle < 14) THEN 1
    ELSE IF (6 <= angle /\ angle < 10) \/ (10 <= angle /\ angle < 14) THEN 2
    ELSE 3

\* q and r after lines 310-320, for the interior pixel (i, j).
NeighbourQ(mag, angle, i, j) ==
    IF Bin(angle) = 0 THEN mag.px[<<i, j + 1>>]
    ELSE IF Bin(angle) = 1 THEN mag.px[<<i + 1, j - 1>>]
    ELSE IF Bin(angle) = 2 THEN mag.px[<<i + 1, j>>]
    ELSE 255

NeighbourR(mag, angle, i, j) ==
    IF Bin(angle) = 0 THEN mag.px[<<i, j - 1>>]
    ELSE IF Bin(angle) = 1 THEN mag.px[<<i - 1, j + 1>>]
    ELSE IF Bin(angle) = 2 THEN mag.px[<<i - 1, j>>]
    ELSE 255

\* range(1, shape[0] - 1) x range(1, shape[1] - 1)
Interior(shape) == (1 .. shape[1] - 2) \X (1 .. shape[2] - 2)

Max(a, b) == IF a >= b THEN a ELSE b

\* A suppression that stores the larger neighbour where the pixel is not a maximum.
nms_stores_neighbour(gradient_magnitude, gradient_direction) ==
    Array(gradient_magnitude.shape,
          [p \in Pos(gradient_magnitude.shape) |->
              IF p \in Interior(gradient_magnitude.shape)
              THEN LET m == gradient_magnitude.px[p]
                       q == NeighbourQ(gradient_magnitude, gradient_direction.px[p], p[1], p[2])
                       r == NeighbourR(gradient_magnitude, gradient_direction.px[p], p[1], p[2])
                   IN  IF m >= q /\ m >= r THEN m ELSE Max(q, r)
              ELSE 0])

\* non_maximum_suppression(gradient_magnitude, gradient_direction)
non_maximum_suppression(gradient_magnitude, gradient_direction) ==
    Array(gradient_magnitude.shape,
          [p \in Pos(gradient_magnitude.shape) |->
              IF p \in Interior(gradient_magnitude.shape)
              THEN LET m == gradient_magnitude.px[p]
                       q == NeighbourQ(gradient_magnitude, gradient_direction.px[p], p[1], p[2])
                       r == NeighbourR(gradient_magnitude, gradient_direction.px[p], p[1], p[2])
                   IN  IF m >= q /\ m >= r THEN m ELSE 0
              ELSE 0])

\* Largest side of a gradient field given to non_maximum_suppression.
MaxNmsSide == 4

NmsShapes == (1 .. MaxNmsSide) \X (1 .. MaxNmsSide)

\* Magnitude levels: well below, and just around, the 255 of line 310.
Palettes == { <<0, 100, 300>>, <<254, 255, 256>> }

\* Non-negative magnitude fields: a palette laid out along a*i + b*j + c.
MagnitudeFields(shape) ==
    { Array(shape, [p \in Pos(shape) |-> pal[((a * p[1] + b * p[2] + c) % 3) + 1]]) :
        pal \in Palettes, a \in 0 .. 2, b \in 0 .. 2, c \in 0 .. 2 }

\* Orientation fields over all of -15 .. 16, constant or varying by pixel.
DirectionFields(shape) ==
    { Array(shape, [p \in Pos(shape) |-> ((da * p[1] + db * p[2] + dc) % 32) - 15]) :
        da \in {0, 3}, db \in {0, 3}, dc \in 0 .. 31 }

InitNms ==
    /\ pc = "call"
    /\ \E s \in NmsShapes :
          \E m \in MagnitudeFields(s) :
             \E d \in DirectionFields(s) :
                args = [gradient_magnitude |-> m, gradient_direction |-> d]
    /\ result = None
    /\ TrackIdle

Nms ==
    /\ pc = "call"
    /\ pc' = "done"
    /\ result' = non_maximum_suppression(args.gradient_magnitude, args.gradient_direction)
    /\ UNCHANGED <<args, TrackVars>>

NextNms == Nms

SpecNms == InitNms /\ [][NextNms]_vars

\* C4: at every position, border included, the suppressed value is at most
\* the input magnitude, and is either 0 or exactly the input magnitude.
C4_NeverIncreases ==
    pc = "done" =>
        \A p \in Pos(args.gradient_magnitude.shape) :
            /\ result.px[p] <= args.gradient_magnitude.px[p]
            /\ result.px[p] \in {0, args.gradient_magnitude.px[p]}

\* An interior pixel of positive magnitude, with an orientation in a bin, is zeroed.
C4_Witness ==
    /\ pc = "done"
    /\ \E p \in Interior(args.gradient_magnitude.shape) :
          /\ Bin(args.gradient_direction.px[p]) # 3
          /\ args.gradient_magnitude.px[p] > 0
          /\ result.px[p] = 0

\* C10: an interior pixel whose orientation matches no bin keeps its
\* magnitude whatever it is; one whose orientation matches a bin keeps its
\* magnitude iff it is >= both selected neighbours and is zeroed otherwise.
C10_FallbackPasses ==
    pc = "done" =>
        \A p \in Interior(args.gradient_magnitude.shape) :
            LET mag == args.gradient_magnitude
                angle == args.gradient_direction.px[p]
            IN  IF Bin(angle) = 3
                THEN result.px[p] = mag.px[p]
                ELSE result.px[p] =
                        IF /\ mag.px[p] >= NeighbourQ(mag, angle, p[1], p[2])
                           /\ mag.px[p] >= NeighbourR(mag, angle, p[1], p[2])
                        THEN mag.px[p] ELSE 0

----------------------------------------------------------------------------
(* Double thresholding *)

\* With the weak band open at its lower end: weak_edges = (m > low) & (m <= high).
double_thresholding_open_low(gradient_magnitude, low_threshold, high_threshold) ==
    Array(gradient_magnitude.shape,
          [p \in Pos(gradient_magnitude.shape) |->
              LET m == gradient_magnitude.px[p]
              IN  IF m > low_threshold /\ m <= high_threshold THEN WEAK
                  ELSE IF m > high_threshold THEN STRONG
                  ELSE 0])

\* double_thresholding: a zero array, 255 written under the strong mask, then
\* 50 written under the weak mask (the later write wins where both hold).
double_thresholding(gradient_magnitude, low_threshold, high_threshold) ==
    Array(gradient_magnitude.shape,
          [p \in Pos(gradient_magnitude.shape) |->
              LET m == gradient_magnitude.px[p]
              IN  IF m >= low_threshold /\ m <= high_threshold THEN WEAK
                  ELSE IF m > high_threshold THEN STRONG
                  ELSE 0])

\* Largest magnitude, and largest number of pixels, of a field given to
\* double_thresholding.
MaxMagnitude == 4
MaxThreshCells == 3

ThreshShapes ==
    { s \in (1 .. MaxThreshCells) \X (1 .. MaxThreshCells) : s[1] * s[2] <= MaxThreshCells }

InitThresh ==
    /\ pc = "call"
    /\ \E s \in ThreshShapes :
          \E m \in Arrays(s, 0 .. MaxMagnitude) :
             \E low \in 0 .. MaxMagnitude + 1 :
                \E high \in 0 .. MaxMagnitude + 1 :
                   args = [gradient_magnitude |-> m,
                           low_threshold |-> low, high_threshold |-> high]
    /\ result = None
    /\ TrackIdle

Thresh ==
    /\ pc = "call"
    /\ pc' = "done"
    /\ result' = double_thresholding(args.gradient_magnitude,
                                     args.low_threshold, args.high_threshold)
    /\ UNCHANGED <<args, TrackVars>>

NextThresh == Thresh

SpecThresh == InitThresh /\ [][NextThresh]_vars

\* C8: for 0 <= low <= high every pixel gets exactly one class: 255 iff its
\* magnitude is above high, 50 iff it lies in [low, high], 0 otherwise; and
\* the call leaves its magnitude argument as it was.
C8_OneClassPerPixel ==
    /\ [](  (pc = "done" /\ 0 <= args.low_threshold
                         /\ args.low_threshold <= args.high_threshold) =>
            \A p \in Pos(args.gradient_magnitude.shape) :
               LET m == args.gradient_magnitude.px[p]
                   c == result.px[p]
               IN  /\ c \in {0, WEAK, STRONG}
                   /\ c = STRONG <=> m > args.high_threshold
                   /\ c = WEAK <=> (args.low_threshold <= m /\ m <= args.high_threshold)
                   /\ c = 0 <=> m < args.low_threshold )
    /\ [][args'.gradient_magnitude = args.gradient_magnitude]_vars

\* A classified field holding a pixel of each of the three classes.
C8_Witness ==
    /\ pc = "done"
    /\ 0 <= args.low_threshold /\ args.low_threshold <= args.high_threshold
    /\ \A c \in {0, WEAK, STRONG} : \E p \in Pos(result.shape) : result.px[p] = c

----------------------------------------------------------------------------
(* Intensity transforms: get_cdf *)

\* Number of histogram bins (len(histogram); 256 in histogram_equalization)
\* and largest count in a bin.
NumBins == 4
MaxCount == 3

Histograms == [0 .. NumBins - 1 -> 0 .. MaxCount]

RECURSIVE SumUpTo(_, _)
SumUpTo(f, n) == IF n < 0 THEN 0 ELSE f[n] + SumUpTo(f, n - 1)

\* Shapes of an image of n pixels: (n,) and every (h, w) with h*w = n.
ShapesOf(n) == { <<n>> } \cup { s \in (1 .. n) \X (1 .. n) : s[1] * s[2] = n }

\* get_cdf(histogram, shape).  prob and cdf are fractions of no_pixels: the
\* result holds the numerators, cdf[i] = num[i] / no_pixels.
\* cdf starts as zeros and the loop runs over range(1, len(prob)).
RECURSIVE CdfNum(_, _)
CdfNum(histogram, i) == IF i = 0 THEN 0 ELSE CdfNum(histogram, i - 1) + histogram[i]

get_cdf(histogram, shape) ==
    LET no_pixels == IF Len(shape) > 1 THEN shape[1] * shape[2] ELSE shape[1]
    IN  [no_pixels |-> no_pixels,
         num |-> [i \in DOMAIN histogram |-> CdfNum(histogram, i)]]

InitCdf ==
    /\ pc = "call"
    /\ \E h \in Histograms :
          /\ SumUpTo(h, NumBins - 1) >= 1
          /\ \E s \in ShapesOf(SumUpTo(h, NumBins - 1)) :
                args = [histogram |-> h, shape |-> s]
    /\ result = None
    /\ TrackIdle

Cdf ==
    /\ pc = "call"
    /\ pc' = "done"
    /\ result' = get_cdf(args.histogram, args.shape)
    /\ UNCHANGED <<args, TrackVars>>

NextCdf == Cdf

SpecCdf == InitCdf /\ [][NextCdf]_vars

\* C6: with N the pixel count, N*cdf[0] = hist[0], N*cdf[i] = N*cdf[i-1] +
\* hist[i] for i >= 1, the CDF is non-decreasing and its last entry is 1.
C6_RunningCdf ==
    pc = "done" =>
        /\ result.num[0] = args.histogram[0]
        /\ \A i \in 1 .. NumBins - 1 :
              /\ result.num[i] = result.num[i - 1] + args.histogram[i]
              /\ result.num[i] >= result.num[i - 1]
        /\ result.num[NumBins - 1] = result.no_pixels

----------------------------------------------------------------------------
(* Canny: apply_gaussian_filter, compute_gradient, canny_edge *)

(* Floats are carried in fixed point with unit 1: the blurred samples and    *)
(* the gradient magnitudes are integer parts.  On a flat image nothing is    *)
(* lost, every window of the unit-sum kernel giving the flat value itself    *)
(* (in float64 too for the value 128, a power of two) and every Sobel        *)
(* response being 0.                                                         *)

\* 1000 * exp(-d2 / (2 * sigma**2)) at sigma = 10 for the squared distances
\* d2 = 0, 1, 2 of a 3-by-3 kernel from its centre (1, 1), to the nearest unit.
\* The common factor 1/(2*pi*sigma**2) cancels in kernel /= np.sum(kernel).
GaussWeights ==
    Kernel(<< <<990, 995, 990>>, <<995, 1000, 995>>, <<990, 995, 990>> >>)

\* np.sum(kernel)
GaussSum == WindowSum(GaussWeights, FlatImage(<<3, 3>>, 1), 0, 0, 1)

\* apply_gaussian_filter(image) with the default kernel_size = 3, sigma = 10:
\* convolve with the normalised kernel.
apply_gaussian_filter(image) ==
    LET weighted == convolve(image, GaussWeights)
    IN  IF weighted = ValueError THEN ValueError
        ELSE Array(weighted.shape,
                   [p \in Pos(weighted.shape) |-> weighted.px[p] \div GaussSum])

\* np.arctan2(y, x) as an orientation in units of pi/16: the even unit when
\* the angle is that multiple of pi/8 exactly (0, pi/4, pi/2, 3pi/4, pi), and
\* otherwise an odd unit between the same two multiples of pi/8 as the angle.
\* tan(pi/8) = sqrt(2) - 1 and tan(3pi/8) = sqrt(2) + 1 give the comparisons.
ArcUpper(y, x) ==   \* y >= 0
    IF y = 0 THEN (IF x >= 0 THEN 0 ELSE 16)
    ELSE IF x > 0 /\ (y + x) * (y + x) < 2 * x * x THEN 1
    ELSE IF x > 0 /\ y < x THEN 3
    ELSE IF x > 0 /\ y = x THEN 4
    ELSE IF x > 0 /\ (y - x) * (y - x) < 2 * x * x THEN 5
    ELSE IF x > 0 THEN 7
    ELSE IF x = 0 THEN 8
    ELSE IF (y + x) * (y + x) > 2 * x * x THEN 9
    ELSE IF y > -x THEN 11
    ELSE IF y = -x THEN 12
    ELSE IF (y - x) * (y - x) > 2 * x * x THEN 13
    ELSE 15

arctan2(y, x) == IF y >= 0 THEN ArcUpper(y, x) ELSE -ArcUpper(-y, x)

\* The vertical Sobel kernel with a mistyped last weight (rows no longer cancel).
compute_gradient_mistyped(image) ==
    LET sobel_x == convolve(image, sobel_kernel)
        sobel_y == convolve(image, Kernel(<< <<-1, -2, -1>>, <<0, 0, 0>>, <<1, 2, 2>> >>))
    IN  IF sobel_x = ValueError THEN ValueError
        ELSE [magnitude |->
                 Array(sobel_x.shape,
                       [p \in Pos(sobel_x.shape) |->
                           ISqrt(sobel_x.px[p] * sobel_x.px[p] + sobel_y.px[p] * sobel_y.px[p])]),
              direction |->
                 Array(sobel_x.shape,
                       [p \in Pos(sobel_x.shape) |-> arctan2(sobel_y.px[p], sobel_x.px[p])])]

\* compute_gradient(image): the two Sobel responses, their norm and their angle.
compute_gradient(image) ==
    LET sobel_x == convolve(image, sobel_kernel)
        sobel_y == convolve(image, Transpose(sobel_kernel))
    IN  IF sobel_x = ValueError THEN ValueError
        ELSE [magnitude |->
                 Array(sobel_x.shape,
                       [p \in Pos(sobel_x.shape) |->
                           ISqrt(sobel_x.px[p] * sobel_x.px[p] + sobel_y.px[p] * sobel_y.px[p])]),
              direction |->
                 Array(sobel_x.shape,
                       [p \in Pos(sobel_x.shape) |-> arctan2(sobel_y.px[p], sobel_x.px[p])])]

\* canny_edge(image, low_threshold=..., high_threshold=...): the five steps;
\* an exception of a step leaves the call.
canny_edge(image, low_threshold, high_threshold) ==
    LET blurred_image == apply_gaussian_filter(image)
    IN  IF blurred_image = ValueError THEN ValueError
        ELSE LET gradient == compute_gradient(blurred_image)
             IN  IF gradient = ValueError THEN ValueError
                 ELSE edge_tracking(
                         double_thresholding(
                            non_maximum_suppression(gradient.magnitude, gradient.direction),
                            low_threshold, high_threshold))

\* Largest side of an image given to canny_edge; the smallest is 6 less.
MaxCannySide == 15

CannyShapes ==
    ((MaxCannySide - 6) .. MaxCannySide) \X ((MaxCannySide - 6) .. MaxCannySide)

CannyImages(shape) ==
    { FlatImage(shape, v) : v \in {0, 128} }
    \cup { StepCols(shape, c) : c \in {3, 4} }
    \cup { StepRows(shape, 3) }

CannyThresholds == {-1, 0, 50, 150}

InitCanny ==
    /\ pc = "call"
    /\ \E s \in CannyShapes :
          \E image \in CannyImages(s) :
             \E low \in CannyThresholds :
                \E high \in CannyThresholds :
                   args = [image |-> image, low_threshold |-> low, high_threshold |-> high]
    /\ result = None
    /\ TrackIdle

Canny ==
    /\ pc = "call"
    /\ pc' = "done"
    /\ result' = canny_edge(args.image, args.low_threshold, args.high_threshold)
    /\ UNCHANGED <<args, TrackVars>>

NextCanny == Canny

SpecCanny == InitCanny /\ [][NextCanny]_vars

\* C3: a 10x10 flat image of 128 run through canny_edge returns, for any
\* threshold pair, an edge map whose every pixel is NOT_EDGE.
C3_FlatTenByTen ==
    (pc = "done" /\ args.image = FlatImage(<<10, 10>>, 128)) =>
        /\ result # ValueError
        /\ \A p \in Pos(result.shape) : result.px[p] = NOT_EDGE

\* C3 as amended: a flat image of 128 with both sides at least 13 and a high
\* threshold >= 0 returns an all-NOT_EDGE map 12 smaller on each side; with a
\* side below 12 (10x10 included) the call raises and returns no map.
C3_FlatLargeEnough ==
    pc = "done" =>
        \A s \in CannyShapes :
            args.image = FlatImage(s, 128) =>
               /\ (s[1] >= 13 /\ s[2] >= 13 /\ args.high_threshold >= 0) =>
                     /\ result # ValueError
                     /\ result.shape = <<s[1] - 12, s[2] - 12>>
                     /\ \A p \in Pos(result.shape) : result.px[p] = NOT_EDGE
               /\ (s[1] < 12 \/ s[2] < 12) => result = ValueError

\* A 15x15 flat image of 128 with both thresholds 0: all nine pixels of the
\* map were classed weak and ended NOT_EDGE.
C3_Witness ==
    /\ pc = "done"
    /\ args.image = FlatImage(<<15, 15>>, 128)
    /\ args.low_threshold = 0 /\ args.high_threshold = 0
    /\ result = FlatImage(<<3, 3>>, NOT_EDGE)

====
